---------------------------- MODULE Spec2Model ----------------------------
(***************************************************************************)
(* A model of ExecutionService (src/src/services/ExecutionService.js): the *)
(* session registry, the per-session ExecutionState, the debug commands,   *)
(* the step evaluator, the variable resolver and the risk classifier.      *)
(*                                                                         *)
(* Representation.                                                         *)
(*  - A text (a JS string) is a sequence of words; the words of a text are *)
(*    separated by single blanks.  A word "$name" is a variable token.     *)
(*  - A JS object used as a map is a function whose DOMAIN is the set of   *)
(*    keys whose value is not undefined.                                   *)
(*  - A session object lives in obj[id] from its creation on, also after   *)
(*    it left the registry: a call that was suspended on an external       *)
(*    process keeps its reference to the object.                           *)
(*  - The only point where a call is suspended and another request can run *)
(*    is the external process of executeCommand (execAsync); every other   *)
(*    await resolves within the same turn of the event loop, so the code   *)
(*    between two such points is one atomic action.                        *)
(*  - Timestamps inside ExecutionState are not modelled; lastActivity and  *)
(*    createdAt are, as readings of the clock.                             *)
(***************************************************************************)
EXTENDS Integers, Sequences, FiniteSets, TLC

VARIABLES
    sessions,   \* this.sessions: the ids registered in the Map
    obj,        \* every session object ever created, by id
    calls,      \* the calls suspended on an external process
    spawned,    \* per session id, the resolved commands handed to execAsync
    clock,      \* the wall clock (Date.now()), in milliseconds
    reply       \* the value returned by the call that finished last

vars == <<sessions, obj, calls, spawned, clock, reply>>

-----------------------------------------------------------------------------
(* Bounds of the model *)

\* the longest execution_history a session is driven to
MaxHistory == 4
\* the longest commandHistory a session is driven to
MaxCmdHistory == 4
\* the number of calls suspended at the same time
MaxInFlight == 2
\* the number of wall-clock advances in a run of the registry
MaxTicks == 2
\* the commands issued to each of two sessions run side by side
MaxPairCommands == 2
\* the longest commandHistory of the session that writes every storage tier
MaxTierCommands == 5
\* the commands issued to the session whose calls are followed to their return
MaxRunCommands == 4

(* Program constants *)

maxConcurrentSessions == 10
StepLimit == 1000
OneHourMs == 3600000

-----------------------------------------------------------------------------
(* Texts *)

VarNames == {"c", "greeting", "temp", "memory", "constructor"}

Dollar(v) ==
    IF v = "c" THEN "$c" ELSE IF v = "greeting" THEN "$greeting"
    ELSE IF v = "memory" THEN "$memory"
    ELSE IF v = "constructor" THEN "$constructor" ELSE "$temp"

IsVarToken(w) == \E v \in VarNames : Dollar(v) = w

NameOf(w) == CHOOSE v \in VarNames : Dollar(v) = w

\* String.prototype.toLowerCase, on one word
LowerWord(w) == IF w = "RM" THEN "rm" ELSE w

toLowerCase(text) == [i \in 1..Len(text) |-> LowerWord(text[i])]

\* String.prototype.includes: pat occurs in text as a run of adjacent words
includes(text, pat) ==
    \E i \in 0..(Len(text) - Len(pat)) :
        \A j \in 1..Len(pat) : text[i + j] = pat[j]

\* the same, for a pattern that ends with a blank: another word must follow
includesThenBlank(text, pat) ==
    \E i \in 0..(Len(text) - Len(pat) - 1) :
        \A j \in 1..Len(pat) : text[i + j] = pat[j]

-----------------------------------------------------------------------------
(* Risk classifier *)

highRisk == { <<"rm", "-rf">>, <<"format">>, <<"fdisk">>, <<"mkfs">>,
              <<"dd", "if=">>, <<"shutdown">>, <<"reboot">> }

mediumRiskBlank == { <<"rm">>, <<"del">> }

mediumRisk == { <<"systemctl", "stop">>, <<"service", "stop">>,
                <<"iptables">>, <<"chmod", "777">> }

assessCommandRisk(command) ==
    LET cmd == toLowerCase(command) IN
    IF \E risk \in highRisk : includes(cmd, risk) THEN "high"
    ELSE IF \/ \E risk \in mediumRiskBlank : includesThenBlank(cmd, risk)
            \/ \E risk \in mediumRisk : includes(cmd, risk)
         THEN "medium"
    ELSE "low"

-----------------------------------------------------------------------------
(* Maps *)

EmptyMap == << >>

Put(m, k, v) == [x \in (DOMAIN m) \cup {k} |-> IF x = k THEN v ELSE m[x]]


-----------------------------------------------------------------------------
(* The Program model: procedures, steps, actions, conditions *)

NoAction == [type |-> "none", command |-> << >>, assign_to |-> ""]

CommandAction(cmd) == [type |-> "command", command |-> cmd, assign_to |-> ""]

LogAction == [type |-> "log", command |-> << >>, assign_to |-> ""]

NoCondition == [type |-> "none", variable |-> "", value |-> << >>, expression |-> << >>]

ContainsCheck(var, val) ==
    [type |-> "contains_check", variable |-> var, value |-> val, expression |-> << >>]

EqualityCheck(var, val) ==
    [type |-> "equality_check", variable |-> var, value |-> val, expression |-> << >>]

BooleanCheck(expr) ==
    [type |-> "boolean_check", variable |-> "", value |-> << >>, expression |-> expr]

\* a step object; a field the step's type does not carry holds its "absent" value
\* (no step built by TranspilerService carries a procedure_id)
Step(id, type, command, assign_to, value, condition, true_branch, false_branch, options) ==
    [id |-> id, type |-> type, command |-> command, assign_to |-> assign_to,
     value |-> value, condition |-> condition, true_branch |-> true_branch,
     false_branch |-> false_branch, options |-> options,
     procedure_id |-> "undefined"]

CommandStep(id, cmd, assign_to) ==
    Step(id, "command", cmd, assign_to, << >>, NoCondition, NoAction, NoAction, << >>)

NoteStep(id) ==
    Step(id, "note", << >>, "", << >>, NoCondition, NoAction, NoAction, << >>)

AnalysisStep(id) ==
    Step(id, "analysis", << >>, "", << >>, NoCondition, NoAction, NoAction, << >>)

AssignmentStep(id, assign_to, value) ==
    Step(id, "assignment", << >>, assign_to, value, NoCondition, NoAction, NoAction, << >>)

ConditionalStep(id, condition, true_branch, false_branch) ==
    Step(id, "conditional", << >>, "", << >>, condition, true_branch, false_branch, << >>)

ChoiceStep(id, options) ==
    Step(id, "choice", << >>, "", << >>, NoCondition, NoAction, NoAction, options)

\* step.options of a step object that has no such field (undefined)
NoOptions == << [type |-> "undefined", command |-> << >>, assign_to |-> ""] >>

\* what procedure.steps[i] yields past the end of the array
NoStep == Step("undefined", "undefined", << >>, "", << >>, NoCondition, NoAction, NoAction, << >>)

Procedure(id, steps) == [id |-> id, steps |-> steps]

Program(procedures, execution_order) ==
    [procedures |-> procedures, execution_order |-> execution_order]

\* one command step: `echo hi`, assigned to greeting
ProgEcho ==
    Program(<< Procedure("p1", << CommandStep("s1", <<"echo", "hi">>, "greeting") >>) >>,
            << "p1" >>)

\* three steps that cannot fail
ProgNotes ==
    Program(<< Procedure("p1", << NoteStep("n1"), AnalysisStep("n2"), NoteStep("n3") >>) >>,
            << "p1" >>)

\* a variable receives a destructive command line and a later step runs it;
\* the last step spells the same command line out
ProgRisk ==
    Program(<< Procedure("p1", << AssignmentStep("a1", "c", <<"rm", "-rf", "x">>),
                                  CommandStep("s2", <<"$c">>, "") >>),
               Procedure("p2", << CommandStep("s3", <<"RM", "-rf", "x">>, "") >>) >>,
            << "p1", "p2" >>)

\* the same command line, run as the action of a choice and of a conditional
ProgBranch ==
    Program(<< Procedure("p1", << AssignmentStep("a1", "c", <<"rm", "-rf", "x">>),
                                  ChoiceStep("k1", << CommandAction(<<"$c">>) >>),
                                  ConditionalStep("d1", ContainsCheck("c", <<"rm">>),
                                                  CommandAction(<<"$c">>), NoAction) >>) >>,
            << "p1" >>)

\* one step more than the step limit, none of which can fail
ProgLong ==
    Program(<< Procedure("p1", [i \in 1..(StepLimit + 1) |-> NoteStep(ToString(i))]) >>,
            << "p1" >>)

\* every storage tier gets written: the output of `echo hi` goes to greeting,
\* "memory" sends a value to persistent memory, and the second procedure
\* writes the frame under the names the other two tiers already hold
ProgTiers ==
    Program(<< Procedure("p1", << CommandStep("s1", <<"echo", "hi">>, "greeting"),
                                  AssignmentStep("m1", "memory", <<"kept">>) >>),
               Procedure("p2", << AssignmentStep("t2", "temp", <<"local">>),
                                  AssignmentStep("g2", "greeting", <<"bye">>) >>) >>,
            << "p1", "p2" >>)

\* a hand-written program whose choice step has no options field
ProgNoOptions ==
    Program(<< Procedure("p1", << ChoiceStep("k1", NoOptions), NoteStep("n2") >>) >>,
            << "p1" >>)

\* procedures lists the procedures in another order than execution_order
ProgSwapped ==
    Program(<< Procedure("p2", << NoteStep("n2") >>),
               Procedure("p1", << NoteStep("n1") >>) >>,
            << "p1", "p2" >>)

\* the first procedure has no steps
ProgEmpty ==
    Program(<< Procedure("p1", << >>),
               Procedure("p2", << NoteStep("n1"), NoteStep("n2") >>) >>,
            << "p1", "p2" >>)

\* execution_order names the same procedure twice
ProgTwice ==
    Program(<< Procedure("p1", << CommandStep("s1", <<"echo", "hi">>, "greeting"),
                                  CommandStep("s2", <<"echo", "$greeting">>, "") >>) >>,
            << "p1", "p1" >>)

\* assignments to a frame variable, to "global" and to "memory"
ProgGlobal ==
    Program(<< Procedure("p1", << AssignmentStep("a1", "c", <<"v">>),
                                  AssignmentStep("g1", "global", <<"say", "$c">>),
                                  AssignmentStep("m1", "memory", <<"w">>) >>) >>,
            << "p1" >>)

\* execution_order goes on to a procedure that procedures does not hold
ProgDangling ==
    Program(<< Procedure("p1", << CommandStep("s1", <<"echo", "hi">>, "greeting") >>) >>,
            << "p1", "px" >>)

Programs == << ProgEcho, ProgNotes, ProgRisk, ProgBranch, ProgLong, ProgTiers, ProgNoOptions,
               ProgSwapped, ProgEmpty, ProgTwice, ProgGlobal, ProgDangling >>

-----------------------------------------------------------------------------
(* ExecutionState and the session object *)

NullError == [isNull |-> TRUE, step_id |-> "", error |-> ""]

ErrorState(step_id, error) == [isNull |-> FALSE, step_id |-> step_id, error |-> error]

\* procedures.find(p => p.id === id): the first match, or NoProcedure
NoProcedure == Procedure("undefined", << >>)

findProcedure(program, id) ==
    IF \E i \in 1..Len(program.procedures) : program.procedures[i].id = id
    THEN program.procedures[CHOOSE i \in 1..Len(program.procedures) :
                                /\ program.procedures[i].id = id
                                /\ \A j \in 1..(i - 1) : program.procedures[j].id # id]
    ELSE NoProcedure

\* array[index] with a 0-based index, NoStep past the end
stepAt(steps, index) ==
    IF index + 1 \in 1..Len(steps) THEN steps[index + 1] ELSE NoStep

createInitialState(program, analysis) ==
    LET firstProcedure == IF Len(program.procedures) > 0
                          THEN program.procedures[1] ELSE NoProcedure
        firstStep == stepAt(firstProcedure.steps, 0)
    IN  [status |-> "initialized",
         current_step |->
             [procedure_id |-> IF firstProcedure = NoProcedure THEN "main"
                               ELSE firstProcedure.id,
              step_id |-> IF firstStep = NoStep THEN "start" ELSE firstStep.id,
              step_index |-> 0,
              instruction_pointer |-> 0],
         frame |-> EmptyMap,
         tool_outputs |-> EmptyMap,
         persistent_vars |-> EmptyMap,
         execution_history |-> << >>,
         breakpoints |-> << >>,
         error_state |-> NullError,
         analysis_summary |-> analysis]

\* the session object startExecution builds (lines 43-60)
NewSession(id, program, analysis, options, now) ==
    [id |-> id,
     program |-> program,
     analysis |-> analysis,
     options |-> options,
     state |-> createInitialState(Programs[program], analysis),
     createdAt |-> now,
     lastActivity |-> now,
     commandHistory |-> << >>,
     totalStepsExecuted |-> 0]

ProgramOf(s) == Programs[s.program]

\* countTotalSteps: the steps of all procedures, summed from the i-th one on
RECURSIVE countStepsFrom(_, _)
countStepsFrom(procedures, i) ==
    IF i > Len(procedures) THEN 0
    ELSE Len(procedures[i].steps) + countStepsFrom(procedures, i + 1)

countTotalSteps(program) == countStepsFrom(program.procedures, 1)

getCurrentStep(s) ==
    LET procedure == findProcedure(ProgramOf(s), s.state.current_step.procedure_id)
    IN  IF procedure = NoProcedure THEN NoStep
        ELSE stepAt(procedure.steps, s.state.current_step.step_index)

\* execution_order.indexOf(id): 0-based, -1 when absent
indexOf(seq, x) ==
    IF \E i \in 1..Len(seq) : seq[i] = x
    THEN (CHOOSE i \in 1..Len(seq) : seq[i] = x /\ \A j \in 1..(i - 1) : seq[j] # x) - 1
    ELSE -1

\* advanceToNextStep, lines 703-713: the cursor enters the next procedure
advanceToProcedure(s, moved, nextProcedureId, firstStep) ==
    [s EXCEPT !.state.current_step =
        [moved EXCEPT !.procedure_id = nextProcedureId,
                      !.step_index = 0,
                      !.step_id = IF firstStep = NoStep THEN "unknown" ELSE firstStep.id]]

\* advanceToNextStep, lines 698-713: the procedure is finished
advancePast(s, moved, order, currentProcIndex) ==
    IF currentProcIndex + 2 \in 1..Len(order)
    THEN advanceToProcedure(s, moved, order[currentProcIndex + 2],
             stepAt(findProcedure(ProgramOf(s), order[currentProcIndex + 2]).steps, 0))
    ELSE [s EXCEPT !.state.current_step = moved]

\* advanceToNextStep, lines 691-718: moved is the cursor with step_index and
\* instruction_pointer incremented
advanceIn(s, procedure, moved) ==
    IF procedure = NoProcedure THEN s
    ELSE IF moved.step_index >= Len(procedure.steps)
    THEN advancePast(s, moved, ProgramOf(s).execution_order,
                     indexOf(ProgramOf(s).execution_order, moved.procedure_id))
    ELSE [s EXCEPT !.state.current_step =
             [moved EXCEPT !.step_id = stepAt(procedure.steps, moved.step_index).id]]

advanceToNextStep(s) ==
    advanceIn(s, findProcedure(ProgramOf(s), s.state.current_step.procedure_id),
              [s.state.current_step EXCEPT !.step_index = @ + 1,
                                           !.instruction_pointer = @ + 1])

completeExecution(s) == [s EXCEPT !.state.status = "completed"]

isBreakpoint(s, stepId) ==
    \E i \in 1..Len(s.state.breakpoints) : s.state.breakpoints[i] = stepId

-----------------------------------------------------------------------------
(* Variable resolver *)

\* the three stores are object literals ({}), read with store[varName]: a
\* name that the store does not hold is looked up in Object.prototype, and
\* what is found there is written into a text as its string
ObjectPrototype == [n \in {"constructor"} |-> <<"function Object() { [native code] }">>]

\* whether getVariable finds a value that is not undefined
isDefined(s, varName) ==
    \/ varName \in DOMAIN s.state.frame
    \/ varName \in DOMAIN ObjectPrototype
    \/ varName \in DOMAIN s.state.persistent_vars
    \/ varName \in DOMAIN s.state.tool_outputs

getVariable(s, varName) ==
    IF varName \in DOMAIN s.state.frame THEN s.state.frame[varName]
    ELSE IF varName \in DOMAIN ObjectPrototype THEN ObjectPrototype[varName]
    ELSE IF varName \in DOMAIN s.state.persistent_vars
    THEN s.state.persistent_vars[varName]
    ELSE s.state.tool_outputs[varName].output

\* findVariableSource as it would be if it looked into persistent memory first
findVariableSourceMemoryFirst(s, varName) ==
    IF varName \in DOMAIN s.state.persistent_vars THEN "persistent_memory"
    ELSE IF varName \in DOMAIN s.state.frame \/ varName \in DOMAIN ObjectPrototype
    THEN "local_variable"
    ELSE IF varName \in DOMAIN s.state.tool_outputs THEN "tool_output"
    ELSE "unknown"

findVariableSource(s, varName) ==
    IF varName \in DOMAIN s.state.frame \/ varName \in DOMAIN ObjectPrototype
    THEN "local_variable"
    ELSE IF varName \in DOMAIN s.state.persistent_vars THEN "persistent_memory"
    ELSE IF varName \in DOMAIN s.state.tool_outputs THEN "tool_output"
    ELSE "unknown"

RECURSIVE replaceTokens(_, _)
replaceTokens(s, text) ==
    IF text = << >> THEN << >>
    ELSE LET w == Head(text)
         IN  (IF IsVarToken(w) /\ isDefined(s, NameOf(w))
              THEN getVariable(s, NameOf(w))
              ELSE << w >>) \o replaceTokens(s, Tail(text))

resolveVariables(s, text) == replaceTokens(s, text)

evaluateCondition(s, condition) ==
    CASE condition.type = "equality_check" ->
            /\ isDefined(s, condition.variable)
            /\ getVariable(s, condition.variable) = condition.value
      [] condition.type = "contains_check" ->
            /\ isDefined(s, condition.variable)
            /\ getVariable(s, condition.variable) # << >>
            /\ includes(getVariable(s, condition.variable), condition.value)
      [] condition.type = "boolean_check" ->
            resolveVariables(s, condition.expression) # << >>
      [] OTHER -> FALSE

-----------------------------------------------------------------------------
(* Step evaluator *)

\* a step result, or the value a debug command returns
Result(success, output, error, risk_level) ==
    [success |-> success, output |-> output, error |-> error, risk_level |-> risk_level,
     undefined |-> FALSE, source |-> ""]

Ok(output) == Result(TRUE, output, "", "")

Fail(error) == Result(FALSE, << >>, error, "")

\* an evaluation that ran to its end
Done(s, result) ==
    [kind |-> "done", session |-> s, result |-> result,
     step |-> NoStep, resolved |-> << >>, assign_to |-> ""]

\* an evaluation that raised an exception
Throw(s, error) ==
    [kind |-> "throw", session |-> s, result |-> Fail(error),
     step |-> NoStep, resolved |-> << >>, assign_to |-> ""]

\* an evaluation that reached execAsync and waits for the external process
Exec(s, resolved, assign_to) ==
    [kind |-> "exec", session |-> s, result |-> Ok(<< >>),
     step |-> NoStep, resolved |-> resolved, assign_to |-> assign_to]

\* what the external process can answer: it fails (non-zero exit, timeout,
\* output overflow), or it succeeds and prints; `echo` prints its arguments
ExecOutcomes(resolved) ==
    IF resolved = << >> THEN { [ok |-> FALSE, out |-> << >>] }
    ELSE { [ok |-> FALSE, out |-> << >>],
           [ok |-> TRUE,
            out |-> IF Head(resolved) = "echo" THEN Tail(resolved) ELSE <<"out">>] }

\* executeCommand as it would be without the check of lines 438-448
executeCommandBeginWithoutGate(s, step) ==
    Exec(s, resolveVariables(s, step.command), step.assign_to)

\* executeCommand, lines 436-454: up to the call of execAsync
executeCommandBegin(s, step) ==
    IF s.options.risk_level = "low" /\ assessCommandRisk(step.command) = "high"
    THEN Done(s, Result(FALSE, << >>, "High-risk command blocked in safe mode", "high"))
    ELSE Exec(s, resolveVariables(s, step.command), step.assign_to)

\* executeCommand as it would be if the output of the process were returned
\* and stored nowhere
executeCommandEndWithoutStore(s, resolved, assign_to, outcome) ==
    IF outcome.ok THEN Done(s, Ok(outcome.out)) ELSE Done(s, Fail("Command failed"))

\* executeCommand, lines 459-489: from the answer of the external process on
executeCommandEnd(s, resolved, assign_to, outcome) ==
    IF outcome.ok
    THEN Done(IF assign_to # ""
              THEN [s EXCEPT !.state.tool_outputs =
                                 Put(@, assign_to, [command |-> resolved,
                                                    output |-> outcome.out]),
                             !.state.frame = Put(@, assign_to, outcome.out)]
              ELSE s,
              Ok(outcome.out))
    ELSE Done(s, Fail("Command failed"))

executeAction(s, action) ==
    CASE action.type = "command" -> executeCommandBegin(s, action)
      [] action.type = "log" -> Done(s, Ok(<<"message">>))
      [] OTHER -> Done(s, Fail("Unknown action type"))

executeConditional(s, step) ==
    LET conditionResult == evaluateCondition(s, step.condition)
        branch == IF conditionResult THEN step.true_branch ELSE step.false_branch
    IN  IF branch # NoAction THEN executeAction(s, branch)
        ELSE Done(s, Ok(<<"Condition", "evaluated">>))

\* executeAssignment as it would be if the frame received every value
executeAssignmentToFrame(s, step) ==
    LET value == resolveVariables(s, step.value)
    IN  Done(IF step.assign_to = "memory" \/ step.assign_to = "global"
             THEN [s EXCEPT !.state.persistent_vars = Put(@, "temp", value),
                            !.state.frame = Put(@, step.assign_to, value)]
             ELSE [s EXCEPT !.state.frame = Put(@, step.assign_to, value)],
             Ok(<<"Assigned">>))

executeAssignment(s, step) ==
    LET value == resolveVariables(s, step.value)
    IN  Done(IF step.assign_to = "memory" \/ step.assign_to = "global"
             THEN [s EXCEPT !.state.persistent_vars = Put(@, "temp", value)]
             ELSE [s EXCEPT !.state.frame = Put(@, step.assign_to, value)],
             Ok(<<"Assigned">>))

executeChoice(s, step) ==
    IF step.options = NoOptions
    THEN Throw(s, "TypeError")
    ELSE IF Len(step.options) > 0 /\ step.options[1] # NoAction
    THEN executeAction(s, step.options[1])
    ELSE Done(s, Ok(<<"Choice", "presented">>))

\* executeChoice, lines 573-578: the choice reports its action's success only
wrapResult(step, result) ==
    IF step.type = "choice"
    THEN Result(result.success, <<"Selected", "option">>, "undefined", "")
    ELSE result

\* executeCurrentStep, lines 375-405: the dispatch on the step's type
dispatchStep(s, step) ==
    CASE step.type = "command" -> executeCommandBegin(s, step)
      [] step.type = "conditional" -> executeConditional(s, step)
      [] step.type = "assignment" -> executeAssignment(s, step)
      [] step.type = "choice" -> executeChoice(s, step)
      [] step.type = "analysis" -> Done(s, Ok(<<"Analysis">>))
      [] step.type = "note" -> Done(s, Ok(<<"Note">>))
      [] OTHER -> Done(s, Fail("Unknown step type"))

\* executeCurrentStep, lines 407-419: the record pushed on execution_history
recordHistory(s, step, result) ==
    [s EXCEPT !.state.execution_history =
        Append(@, [step_id |-> step.id, type |-> step.type, success |-> result.success])]

-----------------------------------------------------------------------------
(* Execution state machine *)

\* stepOver, lines 198-214: counted is the session with the cursor advanced
\* and totalStepsExecuted incremented
stepOverCounted(counted, stepResult) ==
    IF isBreakpoint(counted, counted.state.current_step.step_id)
    THEN Done([counted EXCEPT !.state.status = "paused"], Ok(<<"Paused">>))
    ELSE IF getCurrentStep(counted) = NoStep
    THEN Done(completeExecution(counted), Ok(<<"Completed">>))
    ELSE Done([counted EXCEPT !.state.status = "paused"], stepResult)

\* stepOver as it would be if a failed step set the status and forgot error_state
stepOverAfterWithoutErrorState(s, currentStep, stepResult) ==
    IF stepResult.success
    THEN stepOverCounted([advanceToNextStep(s) EXCEPT !.totalStepsExecuted = @ + 1],
                         stepResult)
    ELSE Done([s EXCEPT !.state.status = "error"], stepResult)

\* stepOver as it would be if it counted the step before looking at its result
stepOverAfterCountingFailures(s, currentStep, stepResult) ==
    IF stepResult.success
    THEN stepOverCounted([advanceToNextStep(s) EXCEPT !.totalStepsExecuted = @ + 1],
                         stepResult)
    ELSE Done([s EXCEPT !.totalStepsExecuted = @ + 1,
                        !.state.status = "error",
                        !.state.error_state = ErrorState(currentStep.id, stepResult.error)],
              stepResult)

\* stepOver as it would be if it moved past a step that failed
stepOverAfterSkippingFailures(s, currentStep, stepResult) ==
    IF stepResult.success
    THEN stepOverCounted([advanceToNextStep(s) EXCEPT !.totalStepsExecuted = @ + 1],
                         stepResult)
    ELSE Done([advanceToNextStep(s) EXCEPT
                   !.state.status = "error",
                   !.state.error_state = ErrorState(currentStep.id, stepResult.error)],
              stepResult)

\* stepOver, lines 194-228: after executeCurrentStep returned stepResult
stepOverAfter(s, currentStep, stepResult) ==
    IF stepResult.success
    THEN stepOverCounted([advanceToNextStep(s) EXCEPT !.totalStepsExecuted = @ + 1],
                         stepResult)
    ELSE Done([s EXCEPT !.state.status = "error",
                        !.state.error_state = ErrorState(currentStep.id, stepResult.error)],
              stepResult)

\* executeCurrentStep, lines 407-419, then stepOver, lines 194-228
stepOverRecorded(s, currentStep, stepResult) ==
    stepOverAfter(recordHistory(s, currentStep, stepResult), currentStep, stepResult)

\* r is what the dispatch on the step's type came to: the call is suspended
\* on execAsync, or the evaluator raised and executeCurrentStep caught it
\* (lines 420-426, nothing is pushed on execution_history), or the step has
\* its result
stepOverEvaluated(currentStep, r) ==
    IF r.kind = "exec" THEN [r EXCEPT !.step = currentStep]
    ELSE IF r.kind = "throw" THEN stepOverAfter(r.session, currentStep, r.result)
    ELSE stepOverRecorded(r.session, currentStep, wrapResult(currentStep, r.result))

\* stepOver, lines 184-192
stepOverAt(s, currentStep) ==
    IF currentStep = NoStep THEN Done(completeExecution(s), Ok(<<"Completed">>))
    ELSE stepOverEvaluated(currentStep,
                           dispatchStep([s EXCEPT !.state.status = "running"], currentStep))

\* stepOver, lines 172-192: up to the end of the call, or to execAsync
stepOver(s) ==
    IF s.state.status = "completed" \/ s.state.status = "error"
    THEN Done(s, Ok(<<"Already">>))
    ELSE stepOverAt(s, getCurrentStep(s))

\* stepOver, resumed with the answer of the external process
stepOverResume(s, currentStep, resolved, assign_to, outcome) ==
    stepOverEvaluated(currentStep, executeCommandEnd(s, resolved, assign_to, outcome))

\* the loops of continue (lines 288-317) and of stepOut (lines 262-271): each
\* runs stepOver until it returns for good or reaches execAsync
RECURSIVE continueLoop(_), continueAfter(_, _), stepOutLoop(_), stepOutAfter(_, _)

\* continue as it would be if it ran on after a pause and began again, from
\* a fresh state, at the end of a procedure
continueAfterRestarting(s, result) ==
    IF ~result.success THEN Done(s, result)
    ELSE IF s.state.current_step.step_index = 0 \/ getCurrentStep(s) = NoStep
    THEN continueLoop([s EXCEPT
             !.state = [createInitialState(ProgramOf(s), s.analysis) EXCEPT
                            !.status = "running"],
             !.totalStepsExecuted = 0])
    ELSE continueLoop([s EXCEPT !.state.status = "running"])

\* continue, lines 291-316: after stepOver returned result
continueAfter(s, result) ==
    IF ~result.success THEN Done(s, result)
    ELSE IF s.state.status = "paused" THEN Done(s, Ok(<<"Execution", "paused">>))
    ELSE IF s.totalStepsExecuted > StepLimit
    THEN Done([s EXCEPT !.state.status = "error",
                        !.state.error_state =
                            ErrorState("undefined", "Execution exceeded step limit (1000 steps)")],
              Fail("Step limit exceeded"))
    ELSE continueLoop(s)

\* continue, line 289: r is what stepOver came to
continueStepped(r) ==
    IF r.kind = "exec" THEN r ELSE continueAfter(r.session, r.result)

\* continue, line 288: the head of the loop
continueLoop(s) ==
    IF getCurrentStep(s) # NoStep /\ s.state.status = "running"
    THEN continueStepped(stepOver(s))
    ELSE Done(s, Ok(IF s.state.status = "completed"
                    THEN <<"Execution", "completed">>
                    ELSE <<"Execution", "stopped">>))

continue(s) == continueLoop([s EXCEPT !.state.status = "running"])

\* stepOut, lines 268-270: after stepOver returned result
stepOutAfter(s, result) ==
    IF ~result.success \/ s.state.status = "error" THEN Done(s, result)
    ELSE stepOutLoop(s)

\* stepOut, line 267: r is what stepOver came to
stepOutStepped(r) ==
    IF r.kind = "exec" THEN r ELSE stepOutAfter(r.session, r.result)

\* stepOut, lines 262-266: currentStep is what getCurrentStep returns
stepOutAt(s, currentStep) ==
    IF /\ currentStep # NoStep
       /\ currentStep.procedure_id = s.state.current_step.procedure_id
    THEN stepOutStepped(stepOver(s))
    ELSE Done(s, Ok(<<"Stepped", "out">>))

stepOutLoop(s) == stepOutAt(s, getCurrentStep(s))

stepOut(s) == stepOutLoop(s)

stepInto(s) == stepOver(s)

\* pause as it would be if it set the status whatever it was
pauseAlways(s) ==
    Done([s EXCEPT !.state.status = "paused"], Ok(<<"Execution", "paused">>))

pause(s) ==
    Done(IF s.state.status = "running" THEN [s EXCEPT !.state.status = "paused"] ELSE s,
         Ok(<<"Execution", "paused">>))

\* reset as it would be if it rebuilt the state and kept the breakpoints
resetKeepingBreakpoints(s) ==
    Done([s EXCEPT !.state = [createInitialState(ProgramOf(s), s.analysis) EXCEPT
                                 !.breakpoints = s.state.breakpoints],
                   !.totalStepsExecuted = 0,
                   !.commandHistory = << >>],
         Ok(<<"Execution", "reset">>))

reset(s) ==
    Done([s EXCEPT !.state = createInitialState(ProgramOf(s), s.analysis),
                   !.totalStepsExecuted = 0,
                   !.commandHistory = << >>],
         Ok(<<"Execution", "reset">>))

\* the expressions of evaluate: "$name", "!command", any other text
VarExpr(name) == [kind |-> "var", name |-> name, text |-> << Dollar(name) >>]

CmdExpr(command) == [kind |-> "cmd", name |-> "", text |-> command]

TextExpr(text) == [kind |-> "text", name |-> "", text |-> text]

\* evaluateExpression as it would be if the output of a `!command` were kept
\* in the variable temp
evaluateExpressionStoring(s, expression) ==
    CASE expression.kind = "var" ->
            Done(s, IF isDefined(s, expression.name)
                    THEN Ok(getVariable(s, expression.name))
                    ELSE [Ok(<< >>) EXCEPT !.undefined = TRUE])
      [] expression.kind = "cmd" ->
            executeCommandBegin(s, [CommandAction(expression.text) EXCEPT
                                       !.assign_to = "temp"])
      [] OTHER -> Done(s, Ok(resolveVariables(s, expression.text)))

\* evaluateExpression, lines 891-923: up to its end, or to execAsync
evaluateExpression(s, expression) ==
    CASE expression.kind = "var" ->
            Done(s, IF isDefined(s, expression.name)
                    THEN Ok(getVariable(s, expression.name))
                    ELSE [Ok(<< >>) EXCEPT !.undefined = TRUE])
      [] expression.kind = "cmd" ->
            executeCommandBegin(s, CommandAction(expression.text))
      [] OTHER -> Done(s, Ok(resolveVariables(s, expression.text)))

inspectVariable(s, varName) ==
    IF ~isDefined(s, varName) THEN Done(s, Fail("Variable not found"))
    ELSE Done(s, [Ok(getVariable(s, varName)) EXCEPT
                     !.source = findVariableSource(s, varName)])

DebugCommands ==
    {"step_over", "step_into", "step_out", "continue", "pause", "reset",
     "evaluate", "inspect"}

NoParams == [expression |-> TextExpr(<< >>), variable |-> ""]

\* processDebugCommand, for one of the eight commands
processDebugCommand(s, command, params) ==
    CASE command = "step_over" -> stepOver(s)
      [] command = "step_into" -> stepInto(s)
      [] command = "step_out" -> stepOut(s)
      [] command = "continue" -> continue(s)
      [] command = "pause" -> pause(s)
      [] command = "reset" -> reset(s)
      [] command = "evaluate" -> evaluateExpression(s, params.expression)
      [] command = "inspect" -> inspectVariable(s, params.variable)

\* a suspended debug command, resumed with the answer of the external process
resumeDebugCommand(s, call, outcome) ==
    CASE call.command = "evaluate" ->
            executeCommandEnd(s, call.resolved, call.assign_to, outcome)
      [] call.command = "continue" ->
            continueStepped(stepOverResume(s, call.step, call.resolved,
                                           call.assign_to, outcome))
      [] call.command = "step_out" ->
            stepOutStepped(stepOverResume(s, call.step, call.resolved,
                                          call.assign_to, outcome))
      [] OTHER -> stepOverResume(s, call.step, call.resolved, call.assign_to, outcome)

\* executeStep, lines 111-119: the record pushed on commandHistory
recordCommand(s, command, result) ==
    [s EXCEPT !.commandHistory = Append(@, [command |-> command, result |-> result.success])]

-----------------------------------------------------------------------------
(* Session manager: the values returned to the caller *)

\* what a call returns: the fields of its result the properties read, and the
\* status of the state it hands back ("none" when it hands back no state)
Reply(op, id, command, result, status) ==
    [op |-> op, id |-> id, command |-> command, success |-> result.success,
     error |-> result.error, risk_level |-> result.risk_level,
     output |-> result.output, undefined |-> result.undefined,
     source |-> result.source, status |-> status, execution_id |-> 0]

NoReply == Reply("none", 0, "", Ok(<< >>), "none")

\* estimateTotalDuration is called at line 76 and defined nowhere in src/;
\* it is taken to return a number for every analysis, null included
estimateTotalDurationThrows(analysis) == FALSE

\* startExecution, lines 69-91: the value returned once the session is
\* registered; analysis.risk_assessment (line 77) throws on a null analysis
startExecutionReturn(s) ==
    IF estimateTotalDurationThrows(s.analysis) \/ ~s.analysis
    THEN Reply("start", 0, "", Fail("TypeError"), "none")
    ELSE [Reply("start", s.id, "", Ok(<< >>), s.state.status) EXCEPT !.execution_id = s.id]

\* a call suspended on the external process it spawned
Call(id, command, r, fromStart) ==
    [id |-> id, command |-> command, step |-> r.step, resolved |-> r.resolved,
     assign_to |-> r.assign_to, fromStart |-> fromStart]

RemoveAt(seq, i) == [j \in 1..(Len(seq) - 1) |-> IF j < i THEN seq[j] ELSE seq[j + 1]]

-----------------------------------------------------------------------------
(* Actions *)

Init ==
    /\ sessions = {}
    /\ obj = << >>
    /\ calls = << >>
    /\ spawned = << >>
    /\ clock = 0
    /\ reply = NoReply

\* startExecution, lines 62-79, without auto_continue
startExecutionManual(session) ==
    /\ obj' = Append(obj, session)
    /\ spawned' = Append(spawned, {})
    /\ reply' = startExecutionReturn(session)
    /\ UNCHANGED calls

\* startExecution, lines 62-79, with auto_continue: r is what the continue
\* command came to
startExecutionAuto(sessionId, r) ==
    IF r.kind = "exec"
    THEN /\ obj' = Append(obj, r.session)
         /\ spawned' = Append(spawned, {r.resolved})
         /\ calls' = Append(calls, Call(sessionId, "continue", r, TRUE))
         /\ UNCHANGED reply
    ELSE /\ obj' = Append(obj, recordCommand(r.session, "continue", r.result))
         /\ spawned' = Append(spawned, {})
         /\ reply' = startExecutionReturn(r.session)
         /\ UNCHANGED calls

\* startExecution, lines 43-79: session is the object built and registered
startExecutionWith(session) ==
    /\ sessions' = sessions \cup {session.id}
    /\ UNCHANGED clock
    /\ IF ~session.options.auto_continue
       THEN startExecutionManual(session)
       ELSE startExecutionAuto(session.id, processDebugCommand(session, "continue", NoParams))

\* startExecution as it would be if the capacity check were off by one
StartExecutionOffByOne(program, analysis, options) ==
    IF Cardinality(sessions) > maxConcurrentSessions
    THEN /\ reply' = Reply("start", 0, "", Fail("Maximum concurrent sessions (10) reached"), "none")
         /\ UNCHANGED <<sessions, obj, calls, spawned, clock>>
    ELSE startExecutionWith(NewSession(Len(obj) + 1, program, analysis, options, clock))

\* startExecution(program, analysis, options)
StartExecution(program, analysis, options) ==
    IF Cardinality(sessions) >= maxConcurrentSessions
    THEN /\ reply' = Reply("start", 0, "", Fail("Maximum concurrent sessions (10) reached"), "none")
         /\ UNCHANGED <<sessions, obj, calls, spawned, clock>>
    ELSE startExecutionWith(NewSession(Len(obj) + 1, program, analysis, options, clock))

\* executeStep, lines 109-119: r is what processDebugCommand came to
executeStepWith(sessionId, command, r) ==
    /\ UNCHANGED <<sessions, clock>>
    /\ IF r.kind = "exec"
       THEN /\ obj' = [obj EXCEPT ![sessionId] = r.session]
            /\ spawned' = [spawned EXCEPT ![sessionId] = @ \cup {r.resolved}]
            /\ calls' = Append(calls, Call(sessionId, command, r, FALSE))
            /\ UNCHANGED reply
       ELSE /\ obj' = [obj EXCEPT ![sessionId] =
                          recordCommand(r.session, command, r.result)]
            /\ reply' = Reply("step", sessionId, command, r.result,
                              r.session.state.status)
            /\ UNCHANGED <<calls, spawned>>

\* executeStep(sessionId, command, params), for one of the eight commands
ExecuteStep(sessionId, command, params) ==
    IF sessionId \notin sessions
    THEN /\ reply' = Reply("step", sessionId, command, Fail("Session not found"), "none")
         /\ UNCHANGED <<sessions, obj, calls, spawned, clock>>
    ELSE executeStepWith(sessionId, command,
             processDebugCommand([obj[sessionId] EXCEPT !.lastActivity = clock],
                                 command, params))

\* executeStep with a command processDebugCommand does not know: it throws
\* after lastActivity was written, and nothing is pushed on commandHistory
ExecuteUnknownCommand(sessionId) ==
    /\ reply' = Reply("step", sessionId, "unknown",
                      Fail(IF sessionId \in sessions THEN "Unknown debug command"
                           ELSE "Session not found"),
                      IF sessionId \in sessions THEN obj[sessionId].state.status
                      ELSE "none")
    /\ obj' = IF sessionId \in sessions
              THEN [obj EXCEPT ![sessionId].lastActivity = clock] ELSE obj
    /\ UNCHANGED <<sessions, calls, spawned, clock>>

\* executeStep, lines 111-119, of a call that was suspended, and the return
\* of startExecution when it is the one that made the call
processReturn(i, call, r, done) ==
    /\ obj' = [obj EXCEPT ![call.id] = done]
    /\ calls' = RemoveAt(calls, i)
    /\ reply' = IF call.fromStart THEN startExecutionReturn(done)
                ELSE Reply("step", call.id, call.command, r.result,
                           r.session.state.status)
    /\ UNCHANGED spawned

\* r is what the resumed call came to
processExitWith(i, call, r) ==
    /\ UNCHANGED <<sessions, clock>>
    /\ IF r.kind = "exec"
       THEN /\ obj' = [obj EXCEPT ![call.id] = r.session]
            /\ spawned' = [spawned EXCEPT ![call.id] = @ \cup {r.resolved}]
            /\ calls' = [calls EXCEPT ![i] = Call(call.id, call.command, r, call.fromStart)]
            /\ UNCHANGED reply
       ELSE processReturn(i, call, r, recordCommand(r.session, call.command, r.result))

\* the external process of the i-th suspended call answers, and the call runs
\* on: to its end, or to the next external process
ProcessExit(i, outcome) ==
    processExitWith(i, calls[i], resumeDebugCommand(obj[calls[i].id], calls[i], outcome))

\* manageBreakpoint as it would be if set pushed the step id without looking
ManageBreakpointAlwaysPushing(sessionId, stepId, action) ==
    IF sessionId \notin sessions
    THEN /\ reply' = Reply("breakpoint", sessionId, action, Fail("Session not found"), "none")
         /\ UNCHANGED <<sessions, obj, calls, spawned, clock>>
    ELSE LET breakpoints == obj[sessionId].state.breakpoints
             present == \E k \in 1..Len(breakpoints) : breakpoints[k] = stepId
             after == IF action = "set" /\ Len(breakpoints) < 3 THEN Append(breakpoints, stepId)
                      ELSE IF action = "remove" /\ present
                      THEN RemoveAt(breakpoints, indexOf(breakpoints, stepId) + 1)
                      ELSE breakpoints
         IN  /\ obj' = [obj EXCEPT ![sessionId].state.breakpoints = after]
             /\ reply' = Reply("breakpoint", sessionId, action, Ok(<< >>),
                               obj[sessionId].state.status)
             /\ UNCHANGED <<sessions, calls, spawned, clock>>

\* manageBreakpoint as it would be if the sessions shared one list of breakpoints
ManageBreakpointShared(sessionId, stepId, action) ==
    IF sessionId \notin sessions
    THEN /\ reply' = Reply("breakpoint", sessionId, action, Fail("Session not found"), "none")
         /\ UNCHANGED <<sessions, obj, calls, spawned, clock>>
    ELSE LET breakpoints == obj[sessionId].state.breakpoints
             present == \E k \in 1..Len(breakpoints) : breakpoints[k] = stepId
             after == IF action = "set" /\ ~present THEN Append(breakpoints, stepId)
                      ELSE IF action = "remove" /\ present
                      THEN RemoveAt(breakpoints, indexOf(breakpoints, stepId) + 1)
                      ELSE breakpoints
         IN  /\ obj' = [i \in DOMAIN obj |-> [obj[i] EXCEPT !.state.breakpoints = after]]
             /\ reply' = Reply("breakpoint", sessionId, action, Ok(<< >>),
                               obj[sessionId].state.status)
             /\ UNCHANGED <<sessions, calls, spawned, clock>>

\* manageBreakpoint(sessionId, stepId, action)
ManageBreakpoint(sessionId, stepId, action) ==
    IF sessionId \notin sessions
    THEN /\ reply' = Reply("breakpoint", sessionId, action, Fail("Session not found"), "none")
         /\ UNCHANGED <<sessions, obj, calls, spawned, clock>>
    ELSE LET breakpoints == obj[sessionId].state.breakpoints
             present == \E k \in 1..Len(breakpoints) : breakpoints[k] = stepId
             after == IF action = "set" /\ ~present THEN Append(breakpoints, stepId)
                      ELSE IF action = "remove" /\ present
                      THEN RemoveAt(breakpoints, indexOf(breakpoints, stepId) + 1)
                      ELSE breakpoints
         IN  /\ obj' = [obj EXCEPT ![sessionId].state.breakpoints = after]
             /\ reply' = Reply("breakpoint", sessionId, action, Ok(<< >>),
                               obj[sessionId].state.status)
             /\ UNCHANGED <<sessions, calls, spawned, clock>>

\* stopExecution as it would be if it reported the stop and deleted nothing
StopExecutionKeepingSession(sessionId) ==
    /\ reply' = IF sessionId \notin sessions
                THEN Reply("stop", sessionId, "", Fail("Session not found"), "none")
                ELSE Reply("stop", sessionId, "", Ok(<< >>), obj[sessionId].state.status)
    /\ UNCHANGED <<sessions, obj, calls, spawned, clock>>

\* stopExecution(sessionId)
StopExecution(sessionId) ==
    IF sessionId \notin sessions
    THEN /\ reply' = Reply("stop", sessionId, "", Fail("Session not found"), "none")
         /\ UNCHANGED <<sessions, obj, calls, spawned, clock>>
    ELSE /\ sessions' = sessions \ {sessionId}
         /\ reply' = Reply("stop", sessionId, "", Ok(<< >>), obj[sessionId].state.status)
         /\ UNCHANGED <<obj, calls, spawned, clock>>

\* getExecutionState(sessionId): a read; null for an unknown id, which the
\* route reports as "Execution session not found"
\* getExecutionState as it would be if a read counted as activity
GetExecutionStateTouching(sessionId) ==
    /\ reply' = IF sessionId \notin sessions
                THEN Reply("state", sessionId, "", Fail("Execution session not found"),
                           "none")
                ELSE Reply("state", sessionId, "", Ok(<< >>), obj[sessionId].state.status)
    /\ obj' = IF sessionId \notin sessions
              THEN obj
              ELSE [obj EXCEPT ![sessionId].lastActivity = clock]
    /\ UNCHANGED <<sessions, calls, spawned, clock>>

GetExecutionState(sessionId) ==
    /\ reply' = IF sessionId \notin sessions
                THEN Reply("state", sessionId, "", Fail("Execution session not found"),
                           "none")
                ELSE Reply("state", sessionId, "", Ok(<< >>), obj[sessionId].state.status)
    /\ UNCHANGED <<sessions, obj, calls, spawned, clock>>

\* getActiveSessions(): a read of every registered session
GetActiveSessions ==
    /\ reply' = Reply("list", 0, "", Ok(<< >>), "none")
    /\ UNCHANGED <<sessions, obj, calls, spawned, clock>>

\* cleanupInactiveSessions as it would be if a session idle for exactly one
\* hour were removed as well
CleanupInactiveSessionsInclusive ==
    /\ sessions' = {id \in sessions : ~(obj[id].lastActivity <= clock - OneHourMs)}
    /\ UNCHANGED <<obj, calls, spawned, clock, reply>>

\* cleanupInactiveSessions()
CleanupInactiveSessions ==
    /\ sessions' = {id \in sessions : ~(obj[id].lastActivity < clock - OneHourMs)}
    /\ UNCHANGED <<obj, calls, spawned, clock, reply>>

\* time passes: by a millisecond, or by an hour
Tick(delta) ==
    /\ (clock \div OneHourMs) + (clock % OneHourMs) < MaxTicks
    /\ clock' = clock + delta
    /\ UNCHANGED <<sessions, obj, calls, spawned, reply>>

-----------------------------------------------------------------------------
(* The requests a specification offers.  uuidv4 is modelled by numbering    *)
(* the sessions in the order of their creation: pool is the set of ids it   *)
(* hands out in the run.                                                    *)

RiskLevels == {"low", "medium"}

Manual == [auto_continue : {FALSE}, risk_level : RiskLevels]

\* the options of a session started by POST /start, which passes none
MediumRisk == [auto_continue |-> FALSE, risk_level |-> "medium"]

Expressions ==
    {VarExpr("greeting"), CmdExpr(<<"echo", "$greeting">>), TextExpr(<<"say", "$c">>)}

InspectedNames == {"greeting"}

\* the step ids breakpoints are set on: a step that is not the last one of
\* its program, and the last one
BreakpointIds(program) ==
    CASE program = 1 -> {"s1"}
      [] program = 2 -> {"n2", "n3"}
      [] program = 3 -> {"s2"}
      [] program = 4 -> {"k1"}
      [] program = 6 -> {"m1"}
      [] program = 7 -> {"n2"}
      [] OTHER -> {"2"}

SteppingCommands == {"step_over", "step_into", "step_out", "continue"}

\* the histories of a registered session are within the bounds of the model
WithinBounds(sessionId) ==
    sessionId \in sessions =>
        /\ Len(obj[sessionId].commandHistory) < MaxCmdHistory
        /\ Len(obj[sessionId].state.execution_history) < MaxHistory

Start(pool, programs, analyses, optionsSet) ==
    \E program \in programs, analysis \in analyses, options \in optionsSet :
        /\ Len(obj) + 1 \in pool
        /\ StartExecution(program, analysis, options)

\* a command issued while no call of the run is suspended
Command(pool, commands) ==
    \E sessionId \in pool, command \in commands :
        /\ calls = << >>
        /\ WithinBounds(sessionId)
        /\ ExecuteStep(sessionId, command, NoParams)

\* a command issued while another call is suspended on its external process
RacingCommand(pool, commands) ==
    \E sessionId \in pool, command \in commands :
        /\ calls # << >>
        /\ Len(calls) < MaxInFlight
        /\ WithinBounds(sessionId)
        /\ ExecuteStep(sessionId, command, NoParams)

Evaluate(pool) ==
    \E sessionId \in pool, expression \in Expressions :
        /\ calls = << >>
        /\ WithinBounds(sessionId)
        /\ ExecuteStep(sessionId, "evaluate", [NoParams EXCEPT !.expression = expression])

Inspect(pool) ==
    \E sessionId \in pool, variable \in InspectedNames :
        /\ calls = << >>
        /\ WithinBounds(sessionId)
        /\ ExecuteStep(sessionId, "inspect", [NoParams EXCEPT !.variable = variable])

UnknownCommand(pool) == \E sessionId \in pool : ExecuteUnknownCommand(sessionId)

Exit ==
    \E i \in 1..Len(calls) : \E outcome \in ExecOutcomes(calls[i].resolved) :
        ProcessExit(i, outcome)

Breakpoint(pool) ==
    \E sessionId \in pool, action \in {"set", "remove"} :
        \E stepId \in IF sessionId \in sessions
                      THEN BreakpointIds(obj[sessionId].program) ELSE {"s1"} :
            ManageBreakpoint(sessionId, stepId, action)

Stop(pool) == \E sessionId \in pool : StopExecution(sessionId)

GetState(pool) == \E sessionId \in pool : GetExecutionState(sessionId)

-----------------------------------------------------------------------------
(* Spec: the debugger of one session.  Every parameterless command while   *)
(* the session is idle; step_over, pause and reset also while a call is    *)
(* suspended on its external process.                                      *)

Next ==
    \/ Start({1}, {1, 2, 3}, {TRUE}, Manual)
    \/ Command({1}, SteppingCommands \cup {"pause", "reset"})
    \/ RacingCommand({1}, {"step_over", "pause", "reset"})
    \/ Exit
    \/ Breakpoint({1})

Spec == Init /\ [][Next]_vars

-----------------------------------------------------------------------------
(* SpecOps: the operations that read or write a session's counters, on    *)
(* one session running `echo hi`, started with an analysis or without:     *)
(* stepping, pause, reset, evaluate,                                       *)
(* inspect, breakpoints, and the answers of the external processes.        *)

NextOps ==
    \/ Start({1}, {1}, BOOLEAN, {[auto_continue |-> FALSE, risk_level |-> "medium"]})
    \/ Command({1}, {"step_over", "continue", "pause", "reset"})
    \/ RacingCommand({1}, {"step_over"})
    \/ Evaluate({1})
    \/ Inspect({1})
    \/ Exit
    \/ Breakpoint({1})

SpecOps == Init /\ [][NextOps]_vars

-----------------------------------------------------------------------------
(* SpecRegistry: the registry of sessions.  Sessions are started, stopped  *)
(* and swept while the clock advances by hours.                            *)

RegistryPool == 1..(maxConcurrentSessions + 2)

Stoppable == {1, 2, maxConcurrentSessions + 1}

NextRegistry ==
    \/ Start(RegistryPool, {2}, {TRUE}, {[auto_continue |-> FALSE, risk_level |-> "medium"]})
    \/ Stop(Stoppable)
    \/ CleanupInactiveSessions
    \/ Tick(OneHourMs)

SpecRegistry == Init /\ [][NextRegistry]_vars

-----------------------------------------------------------------------------
(* SpecSweep: two sessions on the program of three notes, stepped, read,   *)
(* listed and stopped while the clock advances by hours and the idle       *)
(* sessions are swept.                                                     *)

SweepPool == {1, 2}

NextSweep ==
    \/ Start(SweepPool, {2}, {TRUE}, {MediumRisk})
    \/ Command(SweepPool, {"step_over"})
    \/ GetState(SweepPool)
    \/ GetActiveSessions
    \/ Stop(SweepPool)
    \/ CleanupInactiveSessions
    \/ Tick(OneHourMs)

SpecSweep == Init /\ [][NextSweep]_vars

-----------------------------------------------------------------------------
(* SpecOrder: one session stepped through a program, with no two calls in  *)
(* flight: the programs are an ordinary one of two procedures, the ones    *)
(* whose procedures are listed out of order or are empty, and the one that *)
(* assigns to each kind of target.                                         *)

NextOrder ==
    \/ Start({1}, {6, 8, 9, 11}, BOOLEAN, Manual)
    \/ Command({1}, {"step_over", "reset"})
    \/ Exit

SpecOrder == Init /\ [][NextOrder]_vars

-----------------------------------------------------------------------------
(* SpecCounters: one session on a one-step program, whose execution_order  *)
(* may name a procedure that is missing; step_over and reset also arrive   *)
(* while a call is suspended.                                              *)

NextCounters ==
    \/ Start({1}, {1, 12}, {TRUE}, {MediumRisk})
    \/ Command({1}, {"step_over", "reset"})
    \/ RacingCommand({1}, {"step_over", "reset"})
    \/ Exit

SpecCounters == Init /\ [][NextCounters]_vars

-----------------------------------------------------------------------------
(* SpecRun: one session run with continue and step_out, one call at a      *)
(* time, on the one-step program and on the program whose execution_order  *)
(* names its procedure twice.  execAsync is given a timeout (line 455), so *)
(* every external process answers: Exit is weakly fair.                    *)

RunCommand(commands) ==
    \E command \in commands :
        /\ calls = << >>
        /\ 1 \in sessions => Len(obj[1].commandHistory) < MaxRunCommands
        /\ ExecuteStep(1, command, NoParams)

NextRun ==
    \/ Start({1}, {1, 10}, {TRUE}, {MediumRisk})
    \/ RunCommand({"continue", "step_out"})
    \/ Exit

SpecRun == Init /\ [][NextRun]_vars /\ WF_vars(Exit)

-----------------------------------------------------------------------------
(* SpecLimit: one session on the program of StepLimit + 1 steps, driven by *)
(* continue alone.                                                         *)

NextLimit ==
    \/ Start({1}, {5}, {TRUE}, {[auto_continue |-> FALSE, risk_level |-> "medium"]})
    \/ \E command \in {"continue"} :
           /\ 1 \in sessions => Len(obj[1].commandHistory) <= StepLimit + 1
           /\ ExecuteStep(1, command, NoParams)

SpecLimit == Init /\ [][NextLimit]_vars

-----------------------------------------------------------------------------
(* SpecVars: one session on the program that writes every storage tier,    *)
(* stepped or run to its end, reset also while `echo hi` runs, with        *)
(* evaluate("$x") and inspect("x") asked of every name between the steps,  *)
(* and evaluate asked to resolve texts.                                    *)

TierNames == {"greeting", "temp", "memory"}

TierTexts == {<<"say", "$greeting", "$temp", "$memory">>, <<"say", "$constructor">>}

TierExpressions == {VarExpr(v) : v \in TierNames} \cup {TextExpr(t) : t \in TierTexts}

\* a step request to session 1, which has room for a command after the four
\* steps of the program
TierRequest(command, params) ==
    /\ 1 \in sessions => Len(obj[1].commandHistory) < MaxTierCommands
    /\ ExecuteStep(1, command, params)

NextVars ==
    \/ Start({1}, {6}, {TRUE}, {MediumRisk})
    \/ \E command \in {"step_over", "continue", "reset"} :
           calls = << >> /\ TierRequest(command, NoParams)
    \/ \E command \in {"reset"} :
           calls # << >> /\ Len(calls) < MaxInFlight /\ TierRequest(command, NoParams)
    \/ \E expression \in TierExpressions :
           calls = << >> /\ TierRequest("evaluate", [NoParams EXCEPT !.expression = expression])
    \/ \E variable \in TierNames :
           calls = << >> /\ TierRequest("inspect", [NoParams EXCEPT !.variable = variable])
    \/ Exit

SpecVars == Init /\ [][NextVars]_vars

-----------------------------------------------------------------------------
(* SpecPair: two sessions on `echo hi`.  Either is stepped, reset and      *)
(* given breakpoints, also while the other one waits for its external      *)
(* process; the first one is read and stopped, and is addressed before it  *)
(* exists, while it exists and after it was stopped.                       *)

PairPool == {1, 2}

\* a command issued to either session, whatever the other one is doing
PairCommand(commands) ==
    \E sessionId \in PairPool, command \in commands :
        /\ Len(calls) < MaxInFlight
        /\ sessionId \in sessions => Len(obj[sessionId].commandHistory) < MaxPairCommands
        /\ ExecuteStep(sessionId, command, NoParams)

NextPair ==
    \/ Start(PairPool, {1}, {TRUE}, {MediumRisk})
    \/ PairCommand({"step_over", "reset"})
    \/ Exit
    \/ Breakpoint(PairPool)
    \/ Stop({1})
    \/ GetState({1})

SpecPair == Init /\ [][NextPair]_vars

-----------------------------------------------------------------------------
(* SpecRequests: the requests of the routes, addressed to the one session   *)
(* that is started, with an analysis or without, and to an id that no       *)
(* session ever has.                                                        *)

RequestPool == {1, 2}

NextRequests ==
    \/ Start({1}, {1}, BOOLEAN, {MediumRisk})
    \/ Command(RequestPool, {"step_over", "reset"})
    \/ Exit
    \/ Breakpoint(RequestPool)
    \/ Stop(RequestPool)
    \/ GetState(RequestPool)

SpecRequests == Init /\ [][NextRequests]_vars

-----------------------------------------------------------------------------
(* SpecSteps: one session stepped through steps of every type, in safe mode *)
(* or not: notes and an analysis, assignments, commands that succeed, fail  *)
(* or are refused for their risk, a choice and a conditional whose action   *)
(* is a command, and a choice without options.                              *)

NextSteps ==
    \/ Start({1}, {2, 3, 4, 7}, {TRUE}, Manual)
    \/ Command({1}, {"step_over", "reset"})
    \/ RacingCommand({1}, {"step_over", "reset"})
    \/ Exit

SpecSteps == Init /\ [][NextSteps]_vars

-----------------------------------------------------------------------------
(* Properties *)

\* the call that returned last is `command` on session id
Returned(id, command) ==
    reply.op = "step" /\ reply.id = id /\ reply.command = command

\* the session's first and only command so far was `command`, so it was
\* issued in status initialized
OnlyCommand(id, command) ==
    /\ Len(obj[id].commandHistory) = 1
    /\ obj[id].commandHistory[1].command = command

\* every step evaluated so far succeeded
AllSucceeded(id) ==
    \A k \in 1..Len(obj[id].state.execution_history) :
        obj[id].state.execution_history[k].success

\* the ids of the steps of a program, in the order of execution
RECURSIVE stepIdsFrom(_, _)
stepIdsFrom(program, i) ==
    IF i > Len(program.execution_order) THEN << >>
    ELSE LET steps == findProcedure(program, program.execution_order[i]).steps
         IN  [k \in 1..Len(steps) |-> steps[k].id] \o stepIdsFrom(program, i + 1)

\* the ids of the steps evaluated so far, in the order of evaluation
Evaluated(id) ==
    [k \in 1..Len(obj[id].state.execution_history) |->
        obj[id].state.execution_history[k].step_id]

\* C1: for a program of N >= 1 steps, without breakpoints and with every
\* step succeeding, a single continue issued in status initialized ends with
\* status completed and totalStepsExecuted = N.
C1_ContinueRunsToCompletion ==
    \A id \in sessions :
        ( /\ Returned(id, "continue")
          /\ reply.success
          /\ OnlyCommand(id, "continue")
          /\ obj[id].state.breakpoints = << >>
          /\ AllSucceeded(id)
          /\ countTotalSteps(ProgramOf(obj[id])) >= 1 )
        => /\ obj[id].state.status = "completed"
           /\ obj[id].totalStepsExecuted = countTotalSteps(ProgramOf(obj[id]))

\* C2: with a breakpoint on step K, not the last step, and every step
\* succeeding, continue from initialized executes the steps up to and
\* including K and halts paused, the cursor on the step right after K.
C2_ContinueStopsAfterBreakpoint ==
    \A id \in sessions :
        LET ids == stepIdsFrom(ProgramOf(obj[id]), 1)
        IN  \A k \in 1..(Len(ids) - 1) :
                ( /\ Returned(id, "continue")
                  /\ reply.success
                  /\ OnlyCommand(id, "continue")
                  /\ obj[id].state.breakpoints = << ids[k] >>
                  /\ AllSucceeded(id) )
                => /\ obj[id].state.status = "paused"
                   /\ Evaluated(id) = SubSeq(ids, 1, k)
                   /\ obj[id].state.current_step.step_id = ids[k + 1]

\* the state of session id is the one a fresh start of its program produces
FreshlyStarted(id) ==
    LET state == obj'[id].state
        first == ProgramOf(obj[id]).procedures[1]
    IN  /\ state.status = "initialized"
        /\ state.current_step.procedure_id = first.id
        /\ state.current_step.step_id = first.steps[1].id
        /\ state.current_step.step_index = 0
        /\ state.current_step.instruction_pointer = 0
        /\ state.frame = << >>
        /\ state.tool_outputs = << >>
        /\ state.persistent_vars = << >>
        /\ state.execution_history = << >>
        /\ state.breakpoints = << >>
        /\ state.error_state.isNull
        /\ state.analysis_summary = obj[id].analysis
        /\ obj'[id].totalStepsExecuted = 0

\* C3: after reset, issued in any reachable state, the session's state is
\* the one a fresh start of the same program produces, and
\* totalStepsExecuted is 0.
C3_ResetRestoresFreshState ==
    [][\A id \in sessions :
          ExecuteStep(id, "reset", NoParams) => FreshlyStarted(id)]_vars

\* reset has acted on a session that had spawned a process for a
\* call that is still suspended
C3_Witness ==
    /\ 1 \in sessions
    /\ Returned(1, "reset")
    /\ OnlyCommand(1, "reset")
    /\ obj[1].state.status = "initialized"
    /\ obj[1].state.breakpoints = << >>
    /\ spawned[1] # {}
    /\ calls # << >>

\* C4: once the status is completed or error, step_over, step_into,
\* step_out and continue are no-ops: the state and totalStepsExecuted stay
\* as they were and no step is evaluated again.
C4_TerminalStatusFreezesState ==
    [][\A id \in sessions, command \in SteppingCommands :
          ( /\ obj[id].state.status \in {"completed", "error"}
            /\ ExecuteStep(id, command, NoParams) )
          => /\ obj'[id].state = obj[id].state
             /\ obj'[id].totalStepsExecuted = obj[id].totalStepsExecuted
             /\ spawned'[id] = spawned[id]]_vars

\* C5: at most one debug command per session is in flight: of two
\* concurrent step_over calls the second neither reads nor advances the
\* cursor before the first has finished, so no two calls of a session are
\* suspended on a process at the same time.
C5_OneCommandInFlight ==
    \A i, j \in 1..Len(calls) : calls[i].id = calls[j].id => i = j

\* C6: in a session with risk_level low no process is spawned for a command
\* whose resolved text classifies as high risk.
C6_NoHighRiskSpawnInSafeMode ==
    \A id \in 1..Len(obj) :
        obj[id].options.risk_level = "low"
        => \A command \in spawned[id] : assessCommandRisk(command) # "high"

\* the inputs of startExecution the properties range over
AnyOptions == [auto_continue : BOOLEAN, risk_level : RiskLevels]

\* C7: the registry never holds more than 10 sessions, and a start issued
\* while 10 sessions are registered is rejected with a capacity error and
\* registers no session.
C7_RegistryCapacity ==
    /\ [](Cardinality(sessions) <= maxConcurrentSessions)
    /\ [][\A program \in 1..Len(Programs), analysis \in BOOLEAN, options \in AnyOptions :
             ( /\ Cardinality(sessions) = maxConcurrentSessions
               /\ StartExecution(program, analysis, options) )
             => /\ sessions' = sessions
                /\ obj' = obj
                /\ reply'.op = "start"
                /\ ~reply'.success
                /\ reply'.error = "Maximum concurrent sessions (10) reached"]_vars

\* a start was rejected at capacity after sessions had come and gone
C7_Witness ==
    /\ Cardinality(sessions) = maxConcurrentSessions
    /\ Len(obj) > maxConcurrentSessions
    /\ reply.op = "start"
    /\ ~reply.success
    /\ reply.error = "Maximum concurrent sessions (10) reached"

\* C8: a start issued while fewer than 10 sessions are registered, with or
\* without an analysis and with auto_continue off, reports success and
\* returns a new session id, distinct from every id issued before, with a
\* state whose status is initialized; the registry grows by that session.
C8_StartRegistersNewSession ==
    [][\A program \in 1..Len(Programs), analysis \in BOOLEAN, options \in Manual :
          ( /\ Cardinality(sessions) < maxConcurrentSessions
            /\ StartExecution(program, analysis, options) )
          => /\ reply'.op = "start"
             /\ reply'.success
             /\ reply'.execution_id \notin 1..Len(obj)
             /\ reply'.status = "initialized"
             /\ sessions' = sessions \cup {reply'.execution_id}
             /\ Cardinality(sessions') = Cardinality(sessions) + 1]_vars

\* C9: continue on a program of 1001 steps that cannot fail ends with
\* status error, a step-limit message in error_state and
\* totalStepsExecuted = 1000; and no session has executed more than 1000
\* steps since its last reset without its status being error.
C9_StepLimit ==
    \A id \in sessions :
        /\ ( /\ Returned(id, "continue")
             /\ OnlyCommand(id, "continue")
             /\ countTotalSteps(ProgramOf(obj[id])) = StepLimit + 1 )
           => /\ obj[id].state.status = "error"
              /\ ~obj[id].state.error_state.isNull
              /\ obj[id].state.error_state.error = "Execution exceeded step limit (1000 steps)"
              /\ obj[id].totalStepsExecuted = StepLimit
        /\ obj[id].totalStepsExecuted > StepLimit => obj[id].state.status = "error"

\* the transition evaluated a step of session id with success
StepSucceeded(id) ==
    LET before == obj[id].state.execution_history
        after == obj'[id].state.execution_history
    IN  /\ Len(after) > 0
        /\ after[Len(after)].success
        /\ after = Append(before, after[Len(after)])

\* C10: totalStepsExecuted increases by exactly 1 for each step whose
\* evaluation succeeds, is left unchanged by a failed step, by a no-op step
\* command and by pause, evaluate, inspect and breakpoint operations, and
\* only reset sets it back to 0.
C10_CounterDiscipline ==
    [][\A id \in 1..Len(obj) :
          LET before == obj[id].totalStepsExecuted
              after == obj'[id].totalStepsExecuted
          IN  IF id \in sessions /\ ExecuteStep(id, "reset", NoParams)
              THEN after = 0
              ELSE IF StepSucceeded(id) THEN after = before + 1
              ELSE after = before]_vars

\* evaluate has acted on a session whose only step had succeeded
C10_Witness ==
    /\ 1 \in sessions
    /\ Returned(1, "evaluate")
    /\ obj[1].state.status = "completed"
    /\ obj[1].totalStepsExecuted = 1
    /\ Len(obj[1].state.execution_history) = 1

\* C11: whenever the status is initialized, running or paused, current_step
\* points at an existing step of an existing procedure: the cursor lookup
\* returns a step.
C11_CursorValidWhileActive ==
    \A id \in sessions :
        obj[id].state.status \in {"initialized", "running", "paused"}
        => getCurrentStep(obj[id]) # NoStep

\* C12: status = error implies that error_state is not null.
C12_ErrorHasErrorState ==
    \A id \in 1..Len(obj) :
        obj[id].state.status = "error" => ~obj[id].state.error_state.isNull

\* a step failed: the session is in error and error_state names the step
C12_Witness ==
    /\ 1 \in sessions
    /\ obj[1].state.status = "error"
    /\ obj[1].state.error_state.step_id = "s1"
    /\ Len(obj[1].state.execution_history) > 0
    /\ ~obj[1].state.execution_history[Len(obj[1].state.execution_history)].success

\* the steps of a program
AllSteps(program) ==
    UNION { { program.procedures[p].steps[i] : i \in 1..Len(program.procedures[p].steps) } :
            p \in 1..Len(program.procedures) }

\* since the session's last reset a step with assign_to = v has succeeded
Succeeded(s, v) ==
    \E k \in 1..Len(s.state.execution_history) :
        /\ s.state.execution_history[k].success
        /\ \E step \in AllSteps(ProgramOf(s)) :
               step.id = s.state.execution_history[k].step_id /\ step.assign_to = v

\* resolve replaces the token $v by a value
Resolves(s, v) == resolveVariables(s, << Dollar(v) >>) # << Dollar(v) >>

TiersOf(s, x) ==
    SelectSeq(<<"local_variable", "persistent_memory", "tool_output">>,
              LAMBDA tier :
                  CASE tier = "local_variable" -> x \in DOMAIN s.state.frame
                    [] tier = "persistent_memory" -> x \in DOMAIN s.state.persistent_vars
                    [] tier = "tool_output" -> x \in DOMAIN s.state.tool_outputs)

\* the value a tier holds under the name x
TierValue(s, tier, x) ==
    CASE tier = "local_variable" -> s.state.frame[x]
      [] tier = "persistent_memory" -> s.state.persistent_vars[x]
      [] tier = "tool_output" -> s.state.tool_outputs[x].output

EvaluateVar(id, x) ==
    ExecuteStep(id, "evaluate", [NoParams EXCEPT !.expression = VarExpr(x)])

InspectVar(id, x) == ExecuteStep(id, "inspect", [NoParams EXCEPT !.variable = x])

RECURSIVE resolveByTiers(_, _)
resolveByTiers(s, text) ==
    IF text = << >> THEN << >>
    ELSE (IF IsVarToken(Head(text)) /\ TiersOf(s, NameOf(Head(text))) # << >>
          THEN TierValue(s, Head(TiersOf(s, NameOf(Head(text)))), NameOf(Head(text)))
          ELSE << Head(text) >>) \o resolveByTiers(s, Tail(text))

\* C15: resolve replaces each $name token by the value of the first tier that
\* defines the name, in the order frame, persistent_vars, tool_outputs, and
\* leaves the token verbatim, without an error, when no tier defines it.
C15_ResolveByTiers ==
    [][\A id \in sessions : \A text \in TierTexts :
          ExecuteStep(id, "evaluate", [NoParams EXCEPT !.expression = TextExpr(text)])
          => /\ reply'.success
             /\ reply'.output = resolveByTiers(obj[id], text)]_vars

\* a request other than start, addressed to the session id
RequestOn(id) ==
    \/ \E command \in DebugCommands : ExecuteStep(id, command, NoParams)
    \/ \E stepId \in {"s1"}, action \in {"set", "remove"} : ManageBreakpoint(id, stepId, action)
    \/ GetExecutionState(id)
    \/ StopExecution(id)

\* C16: a start that reports failure, and a step, breakpoint, getState or
\* stop request with an unknown session id, leave the registry and every
\* session as they were.
C16_RequestFailuresMutateNothing ==
    [][/\ \A analysis \in BOOLEAN :
              (StartExecution(1, analysis, MediumRisk) /\ ~reply'.success)
              => (sessions' = sessions /\ obj' = obj)
       /\ \A id \in RequestPool \ sessions :
              RequestOn(id) => (~reply'.success /\ sessions' = sessions /\ obj' = obj)]_vars

\* the ids of the sessions that were registered once and are registered no more
Stopped == (1..Len(obj)) \ sessions

\* a step, breakpoint or getState request addressed to the session id
LaterCallOn(id) ==
    \/ \E command \in DebugCommands : ExecuteStep(id, command, NoParams)
    \/ \E stepId \in {"s1"}, action \in {"set", "remove"} : ManageBreakpoint(id, stepId, action)
    \/ GetExecutionState(id)

\* C17: when stop(id) succeeds, id leaves the registry and the other sessions
\* stay registered and unchanged; an id that left the registry never enters
\* it again; and every step, breakpoint or getState request issued for such
\* an id reports not-found and changes nothing.
C17_StopIsIrrecoverable ==
    [][/\ \A id \in sessions :
              (StopExecution(id) /\ reply'.success)
              => /\ sessions' = sessions \ {id}
                 /\ obj' = obj
       /\ \A id \in Stopped :
              /\ id \notin sessions'
              /\ LaterCallOn(id)
                 => /\ ~reply'.success
                    /\ reply'.error \in {"Session not found", "Execution session not found"}
                    /\ sessions' = sessions /\ obj' = obj]_vars

\* session 1 was stopped while session 2 stays registered, and a step_over
\* issued for session 1 afterwards was answered with not-found
C17_Witness ==
    /\ Stopped = {1}
    /\ sessions = {2}
    /\ Returned(1, "step_over")
    /\ ~reply.success
    /\ reply.error = "Session not found"

\* a debug command on the session id, from its call or from the answer of
\* the external process it waited for, or a breakpoint operation on it
ActsOn(id) ==
    \/ \E command \in DebugCommands : ExecuteStep(id, command, NoParams)
    \/ \E stepId \in {"s1"}, action \in {"set", "remove"} : ManageBreakpoint(id, stepId, action)
    \/ \E i \in 1..Len(calls) : \E outcome \in ExecOutcomes(calls[i].resolved) :
           calls[i].id = id /\ ProcessExit(i, outcome)

\* C18: a debug command, a breakpoint operation or a reset on one session
\* leaves every other session's state, totalStepsExecuted, commandHistory
\* and lastActivity, and its place in the registry, as they were, whatever
\* the other sessions are in the middle of.
C18_SessionsAreIsolated ==
    [][\A id \in PairPool :
          ActsOn(id) =>
              \A other \in (1..Len(obj)) \ {id} :
                  /\ obj'[other].state = obj[other].state
                  /\ obj'[other].totalStepsExecuted = obj[other].totalStepsExecuted
                  /\ obj'[other].commandHistory = obj[other].commandHistory
                  /\ obj'[other].lastActivity = obj[other].lastActivity
                  /\ (other \in sessions') = (other \in sessions)]_vars

\* session 1 was reset while the step_over of session 2 waits for its process
C18_Witness ==
    /\ sessions = {1, 2}
    /\ Returned(1, "reset")
    /\ obj[1].state.status = "initialized"
    /\ Len(calls) = 1
    /\ calls[1].id = 2
    /\ obj[2].state.status = "running"
    /\ obj[2].commandHistory = << >>

\* before is an initial segment of after
IsPrefix(before, after) ==
    /\ Len(before) <= Len(after)
    /\ \A k \in 1..Len(before) : after[k] = before[k]

\* a step call on the session id returns: at once, or with the answer of the
\* external process it waited for
StepCallReturns(id) ==
    \/ /\ calls' = calls
       /\ \E command \in DebugCommands : ExecuteStep(id, command, NoParams)
    \/ \E i \in 1..Len(calls) : \E outcome \in ExecOutcomes(calls[i].resolved) :
           /\ calls[i].id = id /\ ~calls[i].fromStart
           /\ Len(calls') < Len(calls)
           /\ ProcessExit(i, outcome)

\* C19: commandHistory is append-only: no transition removes or rewrites a
\* record, and every step call on an existing session, reset included,
\* extends it by exactly one record.
C19_CommandHistoryAppendOnly ==
    [][\A id \in sessions :
          /\ IsPrefix(obj[id].commandHistory, obj'[id].commandHistory)
          /\ StepCallReturns(id)
             => Len(obj'[id].commandHistory) = Len(obj[id].commandHistory) + 1]_vars

\* step_over on the session id finishes the evaluation of step: at once, or
\* with the answer of the external process the step waited for
EvaluatesStep(id, step) ==
    \/ /\ calls' = calls
       /\ obj[id].state.status \notin {"completed", "error"}
       /\ getCurrentStep(obj[id]) = step
       /\ ExecuteStep(id, "step_over", NoParams)
    \/ \E i \in 1..Len(calls) : \E outcome \in ExecOutcomes(calls[i].resolved) :
           /\ calls[i].id = id /\ calls[i].command = "step_over" /\ calls[i].step = step
           /\ Len(calls') < Len(calls)
           /\ ProcessExit(i, outcome)

\* the log gained exactly one entry, for the step with this id and outcome
AppendedEntry(before, after, step_id, success) ==
    /\ Len(after) = Len(before) + 1
    /\ IsPrefix(before, after)
    /\ after[Len(after)].step_id = step_id
    /\ after[Len(after)].success = success

\* C20: every evaluation of a step, whatever its type and whether it
\* succeeds, fails, is refused for its risk or raises, appends exactly one
\* execution_history entry with the step's id and the success flag that is
\* returned; and but for reset the log only grows.
C20_EveryEvaluationIsLogged ==
    [][\A id \in sessions :
          /\ ExecuteStep(id, "reset", NoParams)
             \/ IsPrefix(obj[id].state.execution_history, obj'[id].state.execution_history)
          /\ \A step \in AllSteps(ProgramOf(obj[id])) :
                 EvaluatesStep(id, step)
                 => AppendedEntry(obj[id].state.execution_history,
                                  obj'[id].state.execution_history,
                                  step.id, reply'.success)]_vars

\* the ids of the steps of the procedure that execution_order puts first
firstProcedureIds(program) ==
    LET steps == findProcedure(program, program.execution_order[1]).steps
    IN  [k \in 1..Len(steps) |-> steps[k].id]

\* C21: step_out issued with the cursor inside a procedure, every step
\* succeeding, evaluates exactly the remaining steps of that procedure and
\* returns with the cursor on the first step of the next procedure of
\* execution_order, or with status completed when there is none.  Read for
\* the step_out that is a session's first command, the cursor being on the
\* first step of the first procedure.
C21_StepOutLeavesProcedure ==
    \A id \in sessions :
        ( /\ Returned(id, "step_out")
          /\ OnlyCommand(id, "step_out")
          /\ AllSucceeded(id) )
        => /\ reply.success
           /\ Evaluated(id) = firstProcedureIds(ProgramOf(obj[id]))
           /\ IF Len(ProgramOf(obj[id]).execution_order) = 1
              THEN obj[id].state.status = "completed"
              ELSE /\ obj[id].state.current_step.procedure_id
                          = ProgramOf(obj[id]).execution_order[2]
                   /\ obj[id].state.current_step.step_index = 0

\* the step id is in the list of breakpoints
HasBreakpoint(breakpoints, stepId) ==
    \E k \in 1..Len(breakpoints) : breakpoints[k] = stepId

\* C22: breakpoint management is idempotent and touches only the breakpoint
\* set: no list of breakpoints holds a step id twice; set puts the id in and
\* remove takes it out; set of an id that is present and remove of one that
\* is absent change nothing; and either action leaves status, cursor,
\* variables, histories and counters as they were.
C22_BreakpointsIdempotent ==
    /\ [](\A id \in 1..Len(obj) :
              \A j, k \in 1..Len(obj[id].state.breakpoints) :
                  obj[id].state.breakpoints[j] = obj[id].state.breakpoints[k] => j = k)
    /\ [][\A id \in sessions : \A stepId \in BreakpointIds(obj[id].program) :
              \A action \in {"set", "remove"} :
                  ManageBreakpoint(id, stepId, action)
                  => /\ obj' = [obj EXCEPT ![id].state.breakpoints =
                                               obj'[id].state.breakpoints]
                     /\ HasBreakpoint(obj'[id].state.breakpoints, stepId) = (action = "set")
                     /\ (HasBreakpoint(obj[id].state.breakpoints, stepId) = (action = "set"))
                        => obj' = obj
                     /\ sessions' = sessions]_vars

\* both breakpoints of the three-step program are set, the second of them
\* by the request that returned last, after the first step was evaluated
C22_Witness ==
    /\ 1 \in sessions
    /\ reply.op = "breakpoint" /\ reply.command = "set" /\ reply.success
    /\ obj[1].state.breakpoints = <<"n2", "n3">>
    /\ Len(obj[1].state.execution_history) = 1

\* the time since the session was last active
IdleFor(id) == clock - obj[id].lastActivity

\* C23: a sweep removes exactly the sessions idle for more than one hour and
\* leaves the others registered and every session unchanged; and a session
\* leaves the registry only in a stop of that session or in a sweep.
C23_SweepRemovesIdleSessions ==
    [][/\ CleanupInactiveSessions
          => /\ \A id \in sessions : (id \in sessions') = (IdleFor(id) <= OneHourMs)
             /\ sessions' \subseteq sessions
             /\ obj' = obj
       /\ \A id \in sessions :
              id \notin sessions'
              => \/ StopExecution(id) /\ reply'.success
                 \/ CleanupInactiveSessions /\ IdleFor(id) > OneHourMs]_vars

\* two hours after both sessions were started, the one that was stepped an
\* hour ago is registered and the one that never was has been swept
C23_Witness ==
    /\ Len(obj) = 2
    /\ clock = 2 * OneHourMs
    /\ sessions = {1}
    /\ obj[1].lastActivity = OneHourMs
    /\ obj[2].lastActivity = 0
    /\ reply.op # "stop"

\* an evaluate or inspect call on the session id, from the request or from
\* the answer of the external process its `!command` waited for
ReadsVariables(id) ==
    \/ \E expression \in Expressions :
           ExecuteStep(id, "evaluate", [NoParams EXCEPT !.expression = expression])
    \/ \E variable \in InspectedNames :
           ExecuteStep(id, "inspect", [NoParams EXCEPT !.variable = variable])
    \/ \E i \in 1..Len(calls) : \E outcome \in ExecOutcomes(calls[i].resolved) :
           calls[i].id = id /\ calls[i].command = "evaluate" /\ ProcessExit(i, outcome)

\* C24: evaluate, the `!cmd` form included, and inspect change neither the
\* ExecutionState of the session nor its totalStepsExecuted.
C24_EvaluateAndInspectReadOnly ==
    [][\A id \in sessions :
          ReadsVariables(id)
          => /\ obj'[id].state = obj[id].state
             /\ obj'[id].totalStepsExecuted = obj[id].totalStepsExecuted]_vars

\* evaluate("!echo $greeting") ran its process in a session that has not
\* stepped yet, and returned the token the process printed
C24_Witness ==
    /\ Returned(1, "evaluate")
    /\ reply.success
    /\ reply.output = <<"$greeting">>
    /\ 1 \in sessions
    /\ <<"echo", "$greeting">> \in spawned[1]
    /\ obj[1].state.status = "initialized"
    /\ obj[1].state.execution_history = << >>
    /\ obj[1].commandHistory[Len(obj[1].commandHistory)].command = "evaluate"

\* a call on the session id is suspended on its external process
InFlight(id) == \E i \in 1..Len(calls) : calls[i].id = id

\* C25: whenever no command is in flight on a session, its status is not
\* running.
C25_RunningOnlyInFlight ==
    \A id \in sessions : ~InFlight(id) => obj[id].state.status # "running"

\* the template of the step, in lower case, contains a high-risk substring
LiterallyHighRisk(step) ==
    \E i \in 1..Len(step.command) :
        \/ LowerWord(step.command[i]) \in {"format", "fdisk", "mkfs", "shutdown", "reboot"}
        \/ /\ i < Len(step.command)
           /\ << LowerWord(step.command[i]), LowerWord(step.command[i + 1]) >>
                  \in { <<"rm", "-rf">>, <<"dd", "if=">> }

\* C26: in a session with risk_level = low, step_over on a command step whose
\* template literally contains a high-risk substring returns success = false
\* with risk_level = high, spawns no process, writes nothing to the frame or
\* to tool_outputs, and leaves the cursor on that step.
C26_LiteralHighRiskBlocked ==
    [][\A id \in sessions :
          ( /\ obj[id].options.risk_level = "low"
            /\ obj[id].state.status \notin {"completed", "error"}
            /\ getCurrentStep(obj[id]).type = "command"
            /\ LiterallyHighRisk(getCurrentStep(obj[id]))
            /\ ExecuteStep(id, "step_over", NoParams) )
          => /\ ~reply'.success
             /\ reply'.risk_level = "high"
             /\ spawned' = spawned
             /\ calls' = calls
             /\ obj'[id].state.frame = obj[id].state.frame
             /\ obj'[id].state.tool_outputs = obj[id].state.tool_outputs
             /\ obj'[id].state.current_step = obj[id].state.current_step]_vars

\* in safe mode the step `RM -rf x` was refused: the cursor is on it and the
\* only process of the session was spawned by an earlier step
C26_Witness ==
    /\ 1 \in sessions
    /\ obj[1].options.risk_level = "low"
    /\ Returned(1, "step_over")
    /\ ~reply.success
    /\ reply.risk_level = "high"
    /\ obj[1].state.current_step.step_id = "s3"
    /\ obj[1].state.error_state.step_id = "s3"
    /\ <<"RM", "-rf", "x">> \notin spawned[1]

\* C27: pause changes nothing but the status, which it sets to paused only
\* when it is running; it leaves the calls in flight and what they spawned
\* alone; and a step that was in flight when pause arrived leaves, when its
\* process answers, the state it would have left without the pause.
C27_PauseOnlyWhenRunning ==
    [][\A id \in sessions :
          /\ ExecuteStep(id, "pause", NoParams)
             => /\ obj'[id].state =
                       [obj[id].state EXCEPT
                           !.status = IF @ = "running" THEN "paused" ELSE @]
                /\ obj'[id].totalStepsExecuted = obj[id].totalStepsExecuted
                /\ calls' = calls
                /\ spawned' = spawned
                /\ reply'.success
          /\ \A i \in 1..Len(calls) : \A outcome \in ExecOutcomes(calls[i].resolved) :
                 ( /\ calls[i].id = id
                   /\ obj[id].state.status = "paused"
                   /\ ProcessExit(i, outcome) )
                 => LET unpaused == [obj[id] EXCEPT !.state.status = "running"]
                        r == resumeDebugCommand(unpaused, calls[i], outcome)
                    IN  /\ obj'[id].state = r.session.state
                        /\ obj'[id].totalStepsExecuted = r.session.totalStepsExecuted]_vars

\* pause arrived while `echo hi` was running: the status went from running
\* to paused and the step is still in flight
C27_Witness ==
    /\ 1 \in sessions
    /\ Returned(1, "pause")
    /\ reply.status = "paused"
    /\ obj[1].state.status = "paused"
    /\ obj[1].state.execution_history = << >>
    /\ Len(calls) = 1
    /\ calls[1].id = 1
    /\ calls[1].command = "step_over"

\* C28: reading the state of a session, or the list of the sessions, changes
\* neither the registry nor any field of any session: the time each session
\* has been idle is what it was, so the sweep treats it as if it had not
\* been read.
C28_ReadsArePure ==
    [][( \/ GetActiveSessions
         \/ \E sessionId \in SweepPool : GetExecutionState(sessionId) )
       => /\ sessions' = sessions
          /\ obj' = obj
          /\ calls' = calls
          /\ spawned' = spawned
          /\ \A id \in sessions :
                 /\ IdleFor(id)' = IdleFor(id)
                 /\ (obj[id].lastActivity < clock - OneHourMs)'
                        = (obj[id].lastActivity < clock - OneHourMs)]_vars

\* session 2 was started two hours after session 1; then session 1, idle
\* all that time, was read; then the sweep removed it
C28_Witness ==
    /\ Len(obj) = 2
    /\ obj[1].lastActivity = 0
    /\ obj[2].lastActivity = 2 * OneHourMs
    /\ reply.op = "state"
    /\ reply.id = 1
    /\ reply.success
    /\ sessions = {2}

\* C29: when the evaluation of the current step fails, step_over ends with
\* status error and error_state.step_id the id of the step that failed, and
\* leaves current_step and totalStepsExecuted as they were; a step that
\* fails before the call returns is the one the cursor stays on.
C29_FailureKeepsCursor ==
    [][\A id \in sessions : \A step \in AllSteps(ProgramOf(obj[id])) :
          ( EvaluatesStep(id, step) /\ ~reply'.success )
          => /\ obj'[id].state.status = "error"
             /\ obj'[id].state.error_state.step_id = step.id
             /\ obj'[id].state.current_step = obj[id].state.current_step
             /\ obj'[id].totalStepsExecuted = obj[id].totalStepsExecuted
             /\ calls' = calls => obj'[id].state.current_step.step_id = step.id]_vars

\* the assignment was stepped over, then the command of step s2 exited with
\* an error: the cursor is on s2 and one step is counted
C29_Witness ==
    /\ 1 \in sessions
    /\ Returned(1, "step_over")
    /\ ~reply.success
    /\ obj[1].state.status = "error"
    /\ obj[1].state.error_state.step_id = "s2"
    /\ obj[1].state.current_step.step_id = "s2"
    /\ obj[1].state.current_step.step_index = 1
    /\ obj[1].totalStepsExecuted = 1
    /\ <<"rm", "-rf", "x">> \in spawned[1]

\* the cursor of the session is on the last step of the last procedure
OnLastStep(s) ==
    /\ getCurrentStep(s) # NoStep
    /\ getCurrentStep(advanceToNextStep(s)) = NoStep

\* C30: a step_over that successfully evaluates the last step of the last
\* procedure ends with status completed in that same call, whatever
\* breakpoints are set.
C30_LastStepCompletes ==
    [][\A id \in sessions : \A step \in AllSteps(ProgramOf(obj[id])) :
          ( /\ OnLastStep(obj[id])
            /\ EvaluatesStep(id, step)
            /\ reply'.success )
          => obj'[id].state.status = "completed"]_vars

\* the ids of the steps of the procedures named by order[i], order[i+1], ...
RECURSIVE orderedStepIds(_, _, _)
orderedStepIds(program, order, i) ==
    IF i > Len(order) THEN << >>
    ELSE [k \in 1..Len(findProcedure(program, order[i]).steps) |->
              findProcedure(program, order[i]).steps[k].id]
         \o orderedStepIds(program, order, i + 1)

\* the step ids of the successful entries of a log, in the order of the log
successfulStepIds(history) ==
    LET successful == SelectSeq(history, LAMBDA e : e.success)
    IN  [k \in 1..Len(successful) |-> successful[k].step_id]

\* C31: the step ids of the successful execution_history entries form a
\* prefix of the steps of the procedures taken in execution_order, and the
\* status is completed only when that prefix is the whole sequence.
C31_StepsInProgramOrder ==
    \A id \in sessions :
        LET done == successfulStepIds(obj[id].state.execution_history)
            all == orderedStepIds(ProgramOf(obj[id]), ProgramOf(obj[id]).execution_order, 1)
        IN  /\ IsPrefix(done, all)
            /\ obj[id].state.status = "completed" => done = all

\* C32: an assignment step with assign_to "memory" or "global" writes the
\* resolved value into one entry of persistent_vars and leaves the frame and
\* the heap as they were; with any other assign_to it writes the resolved
\* value into frame[assign_to] and leaves persistent_vars and the heap as
\* they were.
C32_AssignmentWritesOneStore ==
    [][\A id \in sessions : \A step \in AllSteps(ProgramOf(obj[id])) :
          ( step.type = "assignment" /\ EvaluatesStep(id, step) )
          => LET value == resolveVariables(obj[id], step.value)
                 before == obj[id].state
                 after == obj'[id].state
             IN  /\ reply'.success
                 /\ after.tool_outputs = before.tool_outputs
                 /\ IF step.assign_to \in {"memory", "global"}
                    THEN /\ after.frame = before.frame
                         /\ \E name \in VarNames :
                                after.persistent_vars = Put(before.persistent_vars, name, value)
                    ELSE /\ after.persistent_vars = before.persistent_vars
                         /\ after.frame = Put(before.frame, step.assign_to, value)]_vars

\* the assignment to "global" was stepped over: persistent memory holds the
\* value with the frame's c substituted, the frame holds c alone
C32_Witness ==
    /\ 1 \in sessions
    /\ obj[1].program = 11
    /\ obj[1].state.current_step.step_id = "m1"
    /\ DOMAIN obj[1].state.frame = {"c"}
    /\ DOMAIN obj[1].state.persistent_vars = {"temp"}
    /\ obj[1].state.persistent_vars["temp"] = <<"say", "v">>

\* C33: in every state of a session, current_step.instruction_pointer,
\* totalStepsExecuted and the number of successful execution_history
\* entries are equal.
C33_CountersAgree ==
    \A id \in 1..Len(obj) :
        /\ obj[id].state.current_step.instruction_pointer = obj[id].totalStepsExecuted
        /\ obj[id].totalStepsExecuted
               = Len(SelectSeq(obj[id].state.execution_history, LAMBDA e : e.success))

\* C34: in every state whose status is initialized, running, paused or
\* completed, error_state is null.
C34_ErrorStateOnlyInError ==
    \A id \in 1..Len(obj) :
        obj[id].state.status \in {"initialized", "running", "paused", "completed"}
        => obj[id].state.error_state.isNull

\* the session has a step_over suspended on its process and is in the state
\* of a fresh start: stepOver set the status to running before it was
\* suspended, so a reset was processed since
ResetInFlight(id) ==
    /\ Len(calls) = 1
    /\ calls[1].id = id
    /\ calls[1].command = "step_over"
    /\ ~calls[1].fromStart
    /\ obj[id].state = createInitialState(ProgramOf(obj[id]), obj[id].analysis)
    /\ obj[id].totalStepsExecuted = 0

\* C35: when reset was processed while a command step of the session was
\* awaiting its process, the return of that step leaves the session in the
\* fresh initial state: no cursor advance, no count, no execution_history
\* entry and no variable write lands in it.
C35_ResetDiscardsInFlightStep ==
    [][\A id \in sessions :
          ResetInFlight(id)
          => \A outcome \in ExecOutcomes(calls[1].resolved) :
                 ProcessExit(1, outcome)
                 => /\ obj'[id].state = obj[id].state
                    /\ obj'[id].totalStepsExecuted = 0]_vars

=============================================================================
